---------------------------- MODULE Spec2Model ----------------------------
(***************************************************************************)
(* A model of the spreadsheet-driven notification bot.                     *)
(*                                                                         *)
(*   src/Autobot.py          get_sheet_hash, convert_weekday_kor_to_eng,   *)
(*                           load_configs, handle_new_members,             *)
(*                           sleep_until_next_minute, scheduler_loop       *)
(*                                                                         *)
(* Strings are sequences of characters, so that str.strip, str.isdigit,    *)
(* int(), "".join and strftime are computed, not assumed.  A Hangul        *)
(* syllable of the sheet's labels is one character, written in its         *)
(* romanised form ("wol" for the first syllable of the label for Monday).  *)
(***************************************************************************)
EXTENDS Integers, Sequences, FiniteSets, TLC

(***************************************************************************)
(* Bounds of the model.                                                    *)
(***************************************************************************)
\* the largest number of data rows of a sheet
MaxRows == 2
\* the largest number of members of one join event
MaxMembers == 2
\* the largest number of sends that raise in one phase of the scheduler, and
\* in the handling of one join event
MaxFailures == 1
\* the clock advances in steps of this many seconds
TickSeconds == 30
\* seconds of every week that are observed, counted from WindowStart
WindowSeconds == 90

\* telegram_welcome.py: the step of its clock and the length of its window
SimpleTickSeconds == 10

SimpleWindowSeconds == 180

(***************************************************************************)
(* Python values.  None, and the two types a cell of get_all_records can   *)
(* have: str, or int for a cell that reads as a number.                    *)
(***************************************************************************)
None == [t |-> "None"]

Str(s) == [t |-> "str", s |-> s]

Int_(n) == [t |-> "int", n |-> n]

Digits == {"0", "1", "2", "3", "4", "5", "6", "7", "8", "9"}

DigitVal(c) ==
  CASE c = "0" -> 0 [] c = "1" -> 1 [] c = "2" -> 2 [] c = "3" -> 3
    [] c = "4" -> 4 [] c = "5" -> 5 [] c = "6" -> 6 [] c = "7" -> 7
    [] c = "8" -> 8 [] c = "9" -> 9

DigitChar(d) ==
  CASE d = 0 -> "0" [] d = 1 -> "1" [] d = 2 -> "2" [] d = 3 -> "3"
    [] d = 4 -> "4" [] d = 5 -> "5" [] d = 6 -> "6" [] d = 7 -> "7"
    [] d = 8 -> "8" [] d = 9 -> "9"

\* str.strip(): leading and trailing white space removed
RECURSIVE lstrip(_)
lstrip(s) == IF s # <<>> /\ Head(s) = " " THEN lstrip(Tail(s)) ELSE s

RECURSIVE rstrip(_)
rstrip(s) ==
  IF s # <<>> /\ s[Len(s)] = " " THEN rstrip(SubSeq(s, 1, Len(s) - 1)) ELSE s

strip(s) == rstrip(lstrip(s))

\* str.isdigit(): not empty, and every character a digit
isdigit(s) == s # <<>> /\ \A i \in 1..Len(s) : s[i] \in Digits

\* str.startswith(prefix)
startswith(s, prefix) ==
  Len(s) >= Len(prefix) /\ SubSeq(s, 1, Len(prefix)) = prefix

\* the value of a string of digits
RECURSIVE DigitsVal(_)
DigitsVal(s) ==
  IF s = <<>> THEN 0
  ELSE 10 * DigitsVal(SubSeq(s, 1, Len(s) - 1)) + DigitVal(s[Len(s)])

\* int(s) of a str: white space stripped, an optional sign, then digits;
\* anything else raises ValueError
IntBody(s) ==
  LET u == strip(s)
  IN  IF u # <<>> /\ Head(u) \in {"-", "+"} THEN Tail(u) ELSE u

IntParses(s) == isdigit(IntBody(s))

IntOf(s) ==
  LET u == strip(s)
  IN  IF u # <<>> /\ Head(u) = "-" THEN 0 - DigitsVal(IntBody(s))
      ELSE DigitsVal(IntBody(s))

\* str(n) of an int
RECURSIVE NatStr(_)
NatStr(n) ==
  IF n < 10 THEN <<DigitChar(n)>>
  ELSE Append(NatStr(n \div 10), DigitChar(n % 10))

IntStr(n) == IF n < 0 THEN <<"-">> \o NatStr(0 - n) ELSE NatStr(n)

\* str(x) of a cell
str(x) == IF x.t = "int" THEN IntStr(x.n) ELSE x.s


(***************************************************************************)
(* The sheet.  get_all_values returns the rows of the sheet, the header    *)
(* row first, every cell a str.                                            *)
(***************************************************************************)
COL_DAY == <<"bo", "nael", " ", "yo", "il">>

COL_GROUP == <<"geu", "rup", "bang", " ", "I", "D">>

COL_MSG == <<"bo", "nael", " ", "me", "se", "ji">>

COL_TOPIC == <<"to", "pik", " ", "I", "D">>

COL_TIME == <<"bo", "nael", " ", "si", "gan">>

Header == <<COL_DAY, COL_TIME, COL_GROUP, COL_TOPIC, COL_MSG>>

KOR_MON == <<"wol", "yo", "il">>

KOR_TUE == <<"hwa", "yo", "il">>

KOR_JOIN == <<"ip", "jang", "si">>

\* the data rows the sheets of the model are made of: a Monday 09:00 rule
\* twice, the same rule at 09:01, two welcome rules of one chat, a rule
\* whose time cell reads as a number, and the first welcome rule again
ROW_A == <<KOR_MON, <<"0", "9", ":", "0", "0">>, <<"-", "1", "0", "0", "1", "1", "1">>, <<"0">>, <<"A">> >>

ROW_B == <<KOR_MON, <<"0", "9", ":", "0", "1">>, <<"-", "1", "0", "0", "1", "1", "1">>, <<"0">>, <<"A">> >>

ROW_JOIN2 == <<KOR_JOIN, <<>>, <<"-", "1", "0", "0", "1", "1", "1">>, <<"1">>, <<"{", "n", "e", "w", "_", "u", "s", "e", "r", "}", "!">> >>

ROW_JOIN == <<KOR_JOIN, <<>>, <<"1", "1", "1">>, <<"5">>, <<"H", "i">> >>

ROW_NUM == <<KOR_MON, <<"9", "0", "0">>, <<"1", "1", "1">>, <<>>, <<"C">> >>

SampleRows == <<ROW_A, ROW_A, ROW_B, ROW_JOIN, ROW_JOIN2, ROW_NUM, ROW_JOIN>>

\* the sheets of the model: the header, then at most MaxRows consecutive
\* sample rows
Tables ==
  { <<Header>> \o SubSeq(SampleRows, w[1], w[1] + w[2] - 1) :
      w \in { v \in (1..Len(SampleRows)) \X (0..MaxRows) :
                v[1] + v[2] - 1 <= Len(SampleRows) } }

(***************************************************************************)
(* get_sheet_hash (lines 86-92): the MD5 digest of the cells' str values   *)
(* joined without a separator.  MD5 is taken to have no collision on the   *)
(* strings of the model: the digest of s is a value tagged "md5".          *)
(***************************************************************************)
md5(s) == [t |-> "md5", s |-> s]

RECURSIVE join(_)
join(flat_list) ==
  IF flat_list = <<>> THEN <<>> ELSE Head(flat_list) \o join(Tail(flat_list))

RECURSIVE flatten(_)
flatten(values) ==
  IF values = <<>> THEN <<>> ELSE Head(values) \o flatten(Tail(values))

\* a slip: only the first cell of every row is hashed
get_sheet_hash_FirstCells(values) ==
  md5(join([r \in 1..Len(values) |-> IF values[r] = <<>> THEN <<>> ELSE values[r][1]]))

get_sheet_hash(values) == md5(join(flatten(values)))

(***************************************************************************)
(* convert_weekday_kor_to_eng (lines 95-101)                               *)
(***************************************************************************)
WeekdayTable ==
  { <<KOR_MON, "monday">>, <<KOR_TUE, "tuesday">>,
    <<<<"su", "yo", "il">>, "wednesday">>, <<<<"mok", "yo", "il">>, "thursday">>,
    <<<<"geum", "yo", "il">>, "friday">>, <<<<"to", "yo", "il">>, "saturday">>,
    <<<<"il", "yo", "il">>, "sunday">>, <<KOR_JOIN, "on_join">> }

convert_weekday_kor_to_eng(kor) ==
  LET k == strip(str(kor))
      hit == {e \in WeekdayTable : e[1] = k}
  IN  IF hit = {} THEN "" ELSE (CHOOSE e \in hit : TRUE)[2]

(***************************************************************************)
(* sheet.get_all_records (called at line 137): one dict per data row,      *)
(* keyed by the header row; a cell that int() accepts is an int, any       *)
(* other cell stays a str.                                                 *)
(***************************************************************************)
numericise(cell) == IF IntParses(cell) THEN Int_(IntOf(cell)) ELSE Str(cell)

get_all_records(values) ==
  LET keys == Head(values)
      Key(k) == CHOOSE i \in 1..Len(keys) : keys[i] = k
  IN  [r \in 1..(Len(values) - 1) |->
        [k \in {keys[i] : i \in 1..Len(keys)} |->
          numericise(values[r + 1][Key(k)])]]

\* dict.get(key, default)
get(row, key, default) == IF key \in DOMAIN row THEN row[key] ELSE default

(***************************************************************************)
(* The body of the row loop of load_configs (lines 144-200) as a function  *)
(* of the row: what the row adds to which temporary list, or that it is    *)
(* skipped, or that it raised and was caught at line 199.                  *)
(***************************************************************************)
\* lines 161-168: the chat id, or None for the ValueError
ChatId(group_id_raw) ==
  LET chat_id_str == strip(str(group_id_raw))
  IN  IF ~startswith(chat_id_str, <<"-", "1", "0", "0">>) /\ isdigit(chat_id_str)
        THEN Int_(IntOf(<<"-", "1", "0", "0">> \o chat_id_str))
      ELSE IF IntParses(chat_id_str) THEN Int_(IntOf(chat_id_str))
      ELSE None

\* lines 170-175: the topic id, 0 for a blank or unparseable one
TopicId(tid_raw) ==
  LET t == strip(str(tid_raw))
  IN  IF t = <<>> THEN 0 ELSE IF IntParses(t) THEN IntOf(t) ELSE 0

ParseRow(row, row_num) ==
  LET send_day_raw == get(row, COL_DAY, None)
      group_id_raw == get(row, COL_GROUP, None)
      message_raw == get(row, COL_MSG, None)
  IN  IF send_day_raw.t = "None" \/ group_id_raw.t = "None" \/ message_raw.t = "None"
        THEN [kind |-> "skip"]
      ELSE
      LET wd == convert_weekday_kor_to_eng(send_day_raw)
          cid == ChatId(group_id_raw)
          tid == TopicId(get(row, COL_TOPIC, Str(<<"0">>)))
          msg == str(message_raw)
          time_cell == get(row, COL_TIME, Str(<<>>))
      IN  IF wd = "" THEN [kind |-> "skip"]
          ELSE IF cid.t = "None" THEN [kind |-> "skip"]
          \* line 178: .strip() of an int raises AttributeError
          ELSE IF time_cell.t # "str" THEN [kind |-> "raise"]
          ELSE IF wd = "on_join"
            THEN [kind |-> "welcome",
                  rule |-> [chat_id |-> cid.n, topic_id |-> tid, message |-> msg,
                            row_num |-> row_num]]
          ELSE IF strip(time_cell.s) = <<>> THEN [kind |-> "skip"]
          ELSE [kind |-> "schedule",
                rule |-> [weekday |-> wd, time |-> strip(time_cell.s),
                          chat_id |-> cid.n, topic_id |-> tid, message |-> msg,
                          row_num |-> row_num]]

\* lines 140-200: the rules of one kind, in row order (rows are numbered from 2)
RECURSIVE ParseRows(_, _, _)
\* a slip: the try is around the loop, the rows after a raise are not read
ParseRows_Aborts(data, n, kind) ==
  IF n = 0 THEN <<>>
  ELSE LET r == ParseRow(data[n], n + 1)
       IN  IF \E m \in 1..(n - 1) : ParseRow(data[m], m + 1).kind = "raise"
             THEN ParseRows(data, n - 1, kind)
           ELSE IF r.kind = kind THEN Append(ParseRows(data, n - 1, kind), r.rule)
           ELSE ParseRows(data, n - 1, kind)

ParseRows(data, n, kind) ==
  IF n = 0 THEN <<>>
  ELSE LET r == ParseRow(data[n], n + 1)
       IN  IF r.kind = kind THEN Append(ParseRows(data, n - 1, kind), r.rule)
           ELSE ParseRows(data, n - 1, kind)

temp_welcome_list(data) == ParseRows(data, Len(data), "welcome")

temp_schedule_list(data) == ParseRows(data, Len(data), "schedule")

\* some row of data raised inside the row loop and was caught at line 199
RowRaised(data) == \E n \in 1..Len(data) : ParseRow(data[n], n + 1).kind = "raise"

\* a longer sheet: two rules of one minute and a welcome rule
MixedTable == <<Header, ROW_A, ROW_A, ROW_JOIN>>

\* a scheduled rule of Monday 09:00 for topic 5
ROW_TOPIC == <<KOR_MON, <<"0", "9", ":", "0", "0">>, <<"-", "1", "0", "0", "1", "1", "1">>, <<"5">>, <<"A">> >>

\* a sheet of topics: a scheduled rule for topic 5 and a welcome rule for
\* topic 1
TopicTable == <<Header, ROW_TOPIC, ROW_JOIN2>>

\* the sheets the process is started on
Sheets == Tables \cup {MixedTable, TopicTable}

\* a well-typed row: Monday 09:00, chat 111, topic 5, message "5"
BaseRow == <<KOR_MON, <<"0", "9", ":", "0", "0">>, <<"1", "1", "1">>, <<"5">>, <<"5">> >>

\* the cells a single data row is typed from, column by column: a weekday,
\* the join label or nothing; a time with or without its leading zero, or
\* nothing; a chat id, nothing, or a typo; a topic id or nothing; a message
\* or nothing
DayCells == {KOR_MON, KOR_JOIN, <<>>}

TimeCells == {<<"0", "9", ":", "0", "0">>, <<"9", ":", "0", "0">>, <<>>}

GroupCells == {<<"1", "1", "1">>, <<>>, <<"x">>}

TopicCells == {<<"5">>, <<>>}

MsgCells == {<<"5">>, <<>>}

\* the rows that are BaseRow but for one cell at most
OneRows ==
  {r \in DayCells \X TimeCells \X GroupCells \X TopicCells \X MsgCells :
     Cardinality({c \in 1..Len(BaseRow) : r[c] # BaseRow[c]}) <= 1}

\* the columns line 150 requires, by their place in the header
RequiredColumns == {c \in 1..Len(Header) : Header[c] \in {COL_DAY, COL_GROUP, COL_MSG}}

\* a row without its cell of one column
Drop(row, c) == SubSeq(row, 1, c - 1) \o SubSeq(row, c + 1, Len(row))

\* the sheets of one data row: under the full header, and under a header
\* that lacks a required column
RowTables ==
  {<<Header, r>> : r \in OneRows}
    \cup {<<Drop(Header, c), Drop(r, c)>> : r \in OneRows, c \in RequiredColumns}

\* lines 137-200 for each sheet of the model, worked out once: the records
\* and the two temporary lists
Parsed ==
  [t \in Sheets \cup RowTables |->
     LET records == get_all_records(t)
     IN  [data |-> records,
          welcome |-> temp_welcome_list(records),
          schedule |-> temp_schedule_list(records)]]

(***************************************************************************)
(* State.                                                                  *)
(***************************************************************************)
VARIABLES
  \* the process configuration and the tabular source
  SPREADSHEET_URL,   \* TRUE when the environment variable is set (line 55)
  sheet,             \* the rows the source holds now, header first
  \* the cache (lines 81-83)
  last_sheet_hash,
  welcome_list,
  schedule_list,
  \* load_configs: its position and its local
  lpc,               \* "idle", "call", "changed" (after line 135),
                     \* "swap" (between lines 203 and 204), "ret"
  data,              \* the records of line 137
  temp_schedule,     \* temp_schedule_list, once the row loop is over
  \* history of the loads, read by the properties only
  welcome_src,       \* the sheet welcome_list was parsed from
  schedule_src,      \* the sheet schedule_list was parsed from
  fetched,           \* the rows the last get_all_values returned
  hash_src,          \* the rows last_sheet_hash was computed from (line 135)
  before,            \* the rule lists when the load in progress was called
  outcome,           \* how the load in progress ended, once it has
  change,            \* how the rows the load in progress fetched differ from
                     \* the rows of the fetch before it
  abandoned,         \* the last load was abandoned on an error of the
                     \* source, and the sheet is as it was then
  retry,             \* abandoned, when the load in progress was called
  \* the wall clock: seconds since Monday 00:00:00 in the zone of KST
  now,
  \* scheduler_loop: its position and its locals
  spc,               \* "top" (line 376), "loading" (line 378), "now" (line 381),
                     \* "rules" (line 392), "sleep" (line 367), "backoff" (line 417)
  initial_load_done,
  load_called,       \* history: the loop has called load_configs (line 378)
  current_weekday,
  current_time_hm,
  cfg_idx,           \* the index of the rule the loop of line 392 is at, from 1
  sleep_left,        \* seconds of the time.sleep in progress still to pass
  \* history of the scheduler, read by the properties only
  sent,              \* the send_message calls of the phase in progress, in order
  eval_min,          \* the minute now_kst of the last phase fell in
  after_error,       \* the loop backed off at line 417 and has not read the
                     \* clock at line 381 since
  \* handle_new_members: its position, its argument and its locals
  hpc,               \* "idle", "rules" (line 246), "ret" (line 234)
  message,           \* the update: the chat and the members that joined it
  m_idx,             \* the index of new_user in message.new_chat_members, from 1
  user_info,
  h_list,            \* the list the loop of line 246 iterates
  h_idx,             \* the index of the rule that loop is at, from 1
  \* history of the handler, read by the properties only
  hsent,             \* the send_message calls for this update, in order
  \* telegram_welcome.py: the clock and the thread of run_scheduler
  kst,               \* seconds since Monday 00:00 in Asia/Seoul
  rpc,               \* "check" (line 67), "announce" (line 69), "guard"
                     \* (line 70), "poll" (line 71), "dead"
  r_sleep,           \* seconds of the time.sleep in progress still to pass
  \* history of run_scheduler, read by the properties only
  announced_min      \* the minute weekly_announcement was last called in

cacheVars == <<last_sheet_hash, welcome_list, schedule_list>>

loadVars == <<lpc, data, temp_schedule>>

histVars == <<welcome_src, schedule_src, fetched, hash_src, before, outcome, change, abandoned, retry>>

envVars == <<SPREADSHEET_URL, sheet>>

schedVars ==
  <<spc, initial_load_done, load_called, current_weekday, current_time_hm, cfg_idx, sleep_left, sent,
    eval_min, after_error>>

joinVars == <<hpc, message, m_idx, user_info, h_list, h_idx, hsent>>

simpleVars == <<kst, rpc, r_sleep, announced_min>>

\* what load_configs and the sheet leave alone
otherVars == <<now, simpleVars, schedVars, joinVars>>

vars == <<envVars, cacheVars, loadVars, histVars, now, simpleVars, schedVars, joinVars>>

\* no sheet: the initial lists were parsed from none
NoTable == <<>>

\* the two rule lists as a record
Lists == [welcome |-> welcome_list, schedule |-> schedule_list]

NoLists == [welcome |-> <<>>, schedule |-> <<>>]

\* the clock: the days, and the seconds of them, that the model observes
DAY == 24 * 3600

WEEK == 7 * DAY

WindowStart == 9 * 3600

StartDays == {0, 1}

\* no minute: none was evaluated yet
NoMinute == 0 - 1

InitCache ==
  /\ last_sheet_hash = None
  /\ welcome_list = <<>>
  /\ schedule_list = <<>>
  /\ lpc = "idle"
  /\ data = <<>>
  /\ temp_schedule = <<>>
  /\ welcome_src = NoTable
  /\ schedule_src = NoTable
  /\ fetched = NoTable
  /\ hash_src = NoTable
  /\ before = NoLists
  /\ outcome = "none"
  /\ change = "none"
  /\ abandoned = FALSE
  /\ retry = FALSE

InitSched ==
  /\ spc = "top"
  /\ initial_load_done = FALSE
  /\ load_called = FALSE
  /\ current_weekday = ""
  /\ current_time_hm = <<>>
  /\ cfg_idx = 1
  /\ sleep_left = 0
  /\ sent = <<>>
  /\ eval_min = NoMinute
  /\ after_error = FALSE

\* no update is being handled
NoMessage == [chat_id |-> 0, new_chat_members |-> <<>>]

InitJoin ==
  /\ hpc = "idle"
  /\ message = NoMessage
  /\ m_idx = 1
  /\ user_info = <<>>
  /\ h_list = <<>>
  /\ h_idx = 1
  /\ hsent = <<>>

\* telegram_welcome.py: the window of the clock the model observes starts
\* half a minute before 09:00
SimpleWindowStart == 9 * 3600 - 30

\* the thread of run_scheduler has started and nothing was announced
InitSimple ==
  /\ kst = SimpleWindowStart
  /\ rpc = "check"
  /\ r_sleep = 0
  /\ announced_min = NoMinute

\* the process has started: the cache is empty and the scheduler thread is
\* at the top of its loop
Init ==
  /\ SPREADSHEET_URL \in BOOLEAN
  /\ sheet \in Sheets
  /\ now \in {d * DAY + WindowStart : d \in StartDays}
  /\ InitCache
  /\ InitSched
  /\ InitJoin
  /\ InitSimple

\* the same, started on a Monday: the handler does not read the clock
InitMonday ==
  /\ SPREADSHEET_URL \in BOOLEAN
  /\ sheet \in Sheets
  /\ now = WindowStart
  /\ InitCache
  /\ InitSched
  /\ InitJoin
  /\ InitSimple

\* the same, with the clock and the scheduler left out of the picture
InitLoad ==
  /\ SPREADSHEET_URL \in BOOLEAN
  /\ sheet \in Tables
  /\ now = WindowStart
  /\ InitCache
  /\ InitSched
  /\ InitJoin
  /\ InitSimple

(***************************************************************************)
(* The tabular source: somebody edits the sheet.                           *)
(***************************************************************************)
EditSheet ==
  /\ \E t \in Tables \ {sheet} : sheet' = t
  /\ abandoned' = FALSE
  /\ retry' = FALSE
  /\ UNCHANGED <<SPREADSHEET_URL, cacheVars, loadVars, welcome_src, schedule_src, fetched, hash_src,
                 before, outcome, change, otherVars>>

\* somebody retypes one cell of a one-row sheet, or two cells side by side
EditCells ==
  /\ sheet \in RowTables
  /\ \E t \in RowTables \ {sheet} :
       /\ t[1] = sheet[1]
       /\ \E c \in 1..Len(sheet[2]) :
            \A d \in 1..Len(sheet[2]) : t[2][d] # sheet[2][d] => d \in {c, c + 1}
       /\ sheet' = t
  /\ abandoned' = FALSE
  /\ retry' = FALSE
  /\ UNCHANGED <<SPREADSHEET_URL, cacheVars, loadVars, welcome_src, schedule_src, fetched, hash_src,
                 before, outcome, change, otherVars>>

\* two sheets of the same shape that differ in exactly one cell
OneCellApart(t1, t2) ==
  /\ Len(t1) = Len(t2)
  /\ \A r \in 1..Len(t1) : Len(t1[r]) = Len(t2[r])
  /\ Cardinality({rc \in {<<r, c>> : r \in 1..Len(t1), c \in 1..Len(Header)} :
                    rc[2] <= Len(t1[rc[1]]) /\ t1[rc[1]][rc[2]] # t2[rc[1]][rc[2]]}) = 1

\* how the rows now fetched differ from the rows fetched before
HowChanged(old, new) ==
  IF old = NoTable THEN "first"
  ELSE IF new = old THEN "same"
  ELSE IF OneCellApart(old, new) THEN "one_cell"
  ELSE "other"

(***************************************************************************)
(* load_configs (lines 104-216), in the steps another thread or an edit    *)
(* of the sheet can fall between.                                          *)
(***************************************************************************)
\* the call: what the history records of it
Called ==
  /\ lpc' = "call"
  /\ before' = Lists
  /\ retry' = abandoned
  /\ outcome' = "running"
  /\ change' = "none"
  /\ UNCHANGED <<envVars, cacheVars, data, temp_schedule, welcome_src, schedule_src, fetched, hash_src, abandoned>>

\* the return: the history of the load is dropped
Returned ==
  /\ lpc' = "idle"
  /\ before' = NoLists
  /\ retry' = FALSE
  /\ outcome' = "none"
  /\ change' = "none"
  /\ data' = <<>>
  /\ temp_schedule' = <<>>
  /\ UNCHANGED <<envVars, cacheVars, welcome_src, schedule_src, fetched, hash_src, abandoned>>

\* lines 108-110: no source location, the load is skipped
LoadNoConfig ==
  /\ lpc = "call"
  /\ ~SPREADSHEET_URL
  /\ lpc' = "ret"
  /\ outcome' = "noconfig"
  /\ abandoned' = FALSE
  /\ UNCHANGED <<envVars, cacheVars, data, temp_schedule, welcome_src, schedule_src, fetched, hash_src, before, change, retry>>
  /\ UNCHANGED otherVars

\* lines 121-127 raise (authorize, open_by_url, worksheet, get_all_values):
\* caught at line 213 or 215
LoadFetchRaises ==
  /\ lpc = "call"
  /\ SPREADSHEET_URL
  /\ lpc' = "ret"
  /\ outcome' = "abandoned_fetch"
  /\ abandoned' = TRUE
  /\ UNCHANGED <<envVars, cacheVars, data, temp_schedule, welcome_src, schedule_src, fetched, hash_src, before, change, retry>>
  /\ UNCHANGED otherVars

\* a slip: the live lists, not temporary ones, are emptied for the reparse
LoadCompare_ClearsLists ==
  /\ lpc = "call"
  /\ SPREADSHEET_URL
  /\ LET values == sheet
         current_hash == get_sheet_hash(values)
     IN  /\ fetched' = values
         /\ hash_src' = IF current_hash = last_sheet_hash THEN hash_src ELSE values
         /\ change' = HowChanged(fetched, values)
         /\ IF current_hash = last_sheet_hash
              THEN /\ lpc' = "ret"
                   /\ outcome' = "unchanged"
                   /\ abandoned' = FALSE
                   /\ UNCHANGED cacheVars
              ELSE /\ lpc' = "changed"
                   /\ last_sheet_hash' = current_hash
                   /\ welcome_list' = <<>>
                   /\ schedule_list' = <<>>
                   /\ UNCHANGED <<outcome, abandoned>>
  /\ UNCHANGED <<envVars, data, temp_schedule, welcome_src, schedule_src, before, retry>>
  /\ UNCHANGED otherVars

\* a slip: the new hash is kept in a local and never stored in the cache
LoadCompare_NoStore ==
  /\ lpc = "call"
  /\ SPREADSHEET_URL
  /\ LET values == sheet
         current_hash == get_sheet_hash(values)
     IN  /\ fetched' = values
         /\ UNCHANGED hash_src
         /\ change' = HowChanged(fetched, values)
         /\ IF current_hash = last_sheet_hash
              THEN /\ lpc' = "ret"
                   /\ outcome' = "unchanged"
                   /\ abandoned' = FALSE
              ELSE /\ lpc' = "changed"
                   /\ UNCHANGED <<outcome, abandoned>>
  /\ UNCHANGED <<envVars, cacheVars, data, temp_schedule, welcome_src, schedule_src, before, retry>>
  /\ UNCHANGED otherVars

\* lines 127-135: the rows are fetched and their hash is compared with the
\* cached one; an equal hash returns, a new one is stored at once
LoadCompare ==
  /\ lpc = "call"
  /\ SPREADSHEET_URL
  /\ LET values == sheet
         current_hash == get_sheet_hash(values)
     IN  /\ fetched' = values
         /\ hash_src' = IF current_hash = last_sheet_hash THEN hash_src ELSE values
         /\ change' = HowChanged(fetched, values)
         /\ IF current_hash = last_sheet_hash
              THEN /\ lpc' = "ret"
                   /\ outcome' = "unchanged"
                   /\ abandoned' = FALSE
                   /\ UNCHANGED last_sheet_hash
              ELSE /\ lpc' = "changed"
                   /\ last_sheet_hash' = current_hash
                   /\ UNCHANGED <<outcome, abandoned>>
  /\ UNCHANGED <<envVars, welcome_list, schedule_list, data, temp_schedule, welcome_src, schedule_src,
                 before, retry>>
  /\ UNCHANGED otherVars

\* line 137 raises: caught at line 213 or 215
LoadRecordsRaises ==
  /\ lpc = "changed"
  /\ lpc' = "ret"
  /\ outcome' = "abandoned_records"
  /\ abandoned' = TRUE
  /\ UNCHANGED <<envVars, cacheVars, data, temp_schedule, welcome_src, schedule_src, fetched, hash_src, before, change, retry>>
  /\ UNCHANGED otherVars

\* lines 137-203: the records are fetched, every row is parsed into the
\* temporary lists, and welcome_list is assigned
LoadParse ==
  /\ lpc = "changed"
  /\ data' = Parsed[sheet].data
  /\ temp_schedule' = Parsed[sheet].schedule
  /\ welcome_list' = Parsed[sheet].welcome
  /\ welcome_src' = sheet
  /\ lpc' = "swap"
  /\ UNCHANGED <<envVars, last_sheet_hash, schedule_list, schedule_src, fetched, hash_src, before,
                 outcome, change, abandoned, retry>>
  /\ UNCHANGED otherVars

\* line 204: schedule_list is assigned
LoadPublish ==
  /\ lpc = "swap"
  /\ schedule_list' = temp_schedule
  /\ schedule_src' = welcome_src
  /\ lpc' = "ret"
  /\ outcome' = "published"
  /\ abandoned' = FALSE
  /\ UNCHANGED <<envVars, last_sheet_hash, welcome_list, data, temp_schedule, welcome_src, fetched, hash_src, before,
                 change, retry>>
  /\ UNCHANGED otherVars

(***************************************************************************)
(* The loader on its own: load_configs is called again and again while     *)
(* the sheet is edited and the source fails at will.                       *)
(***************************************************************************)
CallLoad ==
  /\ lpc = "idle"
  /\ Called
  /\ UNCHANGED otherVars

ReturnLoad ==
  /\ lpc = "ret"
  /\ Returned
  /\ UNCHANGED otherVars

NextLoad ==
  \/ CallLoad
  \/ LoadNoConfig
  \/ LoadFetchRaises
  \/ LoadCompare
  \/ LoadRecordsRaises
  \/ LoadParse
  \/ LoadPublish
  \/ ReturnLoad
  \/ EditSheet

LoadSpec == InitLoad /\ [][NextLoad]_vars

(***************************************************************************)
(* The loader on sheets of one data row, typed cell by cell.               *)
(***************************************************************************)
InitRow ==
  /\ SPREADSHEET_URL \in BOOLEAN
  /\ sheet \in RowTables
  /\ now = WindowStart
  /\ InitCache
  /\ InitSched
  /\ InitJoin
  /\ InitSimple

NextRow ==
  \/ CallLoad
  \/ LoadNoConfig
  \/ LoadFetchRaises
  \/ LoadCompare
  \/ LoadRecordsRaises
  \/ LoadParse
  \/ LoadPublish
  \/ ReturnLoad
  \/ EditCells

RowSpec == InitRow /\ [][NextRow]_vars

(***************************************************************************)
(* The wall clock.  Time passes in steps of TickSeconds while the threads  *)
(* are anywhere in their code.  Only WindowSeconds of each week are        *)
(* observed: at the end of them the clock jumps to the same window of the  *)
(* next week, a jump longer than any sleep of the code, and the seconds    *)
(* are counted from the Monday of that week: a minute evaluated before the *)
(* jump is a minute of the week before, a negative one.                    *)
(***************************************************************************)
second(t) == t % 60

minute(t) == (t % 3600) \div 60

hour(t) == (t % DAY) \div 3600

\* strftime("%A").lower()
WeekdayNames ==
  <<"monday", "tuesday", "wednesday", "thursday", "friday", "saturday", "sunday">>

strftime_A(t) == WeekdayNames[((t \div DAY) % 7) + 1]

\* strftime("%H:%M")
strftime_HM(t) ==
  <<DigitChar(hour(t) \div 10), DigitChar(hour(t) % 10), ":",
    DigitChar(minute(t) \div 10), DigitChar(minute(t) % 10)>>

Tick ==
  LET start == (now \div DAY) * DAY + WindowStart
      nextWeek == now + TickSeconds > start + WindowSeconds
  IN  /\ now' = IF nextWeek THEN start ELSE now + TickSeconds
      /\ sleep_left' =
           IF nextWeek \/ sleep_left <= TickSeconds THEN 0 ELSE sleep_left - TickSeconds
      /\ eval_min' = IF nextWeek /\ eval_min >= 0 THEN eval_min - WEEK \div 60 ELSE eval_min
      /\ UNCHANGED <<envVars, cacheVars, loadVars, histVars, simpleVars, spc, initial_load_done, load_called,
                     current_weekday, current_time_hm, cfg_idx, sent, after_error, joinVars>>

(***************************************************************************)
(* scheduler_loop (lines 370-417) and sleep_until_next_minute              *)
(* (lines 357-367).                                                        *)
(***************************************************************************)
\* line 417: the back-off after an error of the loop, in seconds
BACKOFF == 60

\* a slip: a sleep of a fixed duration
sleep_duration_Fixed(t) == 60 \div 2

\* lines 358-362
sleep_duration(t) ==
  LET d == 60 - second(t)
  IN  IF d < 0 THEN d + 60 ELSE d

\* a slip: the weekday is not compared
Matches_TimeOnly(cfg, weekday, time_hm) == cfg.time = time_hm

\* line 396
Matches(cfg, weekday, time_hm) == cfg.weekday = weekday /\ cfg.time = time_hm

\* a slip: only topic 0 is left without message_thread_id
SendKwargs_ZeroOnly(cfg, text) ==
  IF cfg.topic_id # 0
    THEN [chat_id |-> cfg.chat_id, text |-> text, message_thread_id |-> cfg.topic_id]
    ELSE [chat_id |-> cfg.chat_id, text |-> text]

\* lines 263-269 and 399-404: the arguments of bot.send_message
SendKwargs(cfg, text) ==
  IF cfg.topic_id # 0 /\ cfg.topic_id \notin {0, 1}
    THEN [chat_id |-> cfg.chat_id, text |-> text, message_thread_id |-> cfg.topic_id]
    ELSE [chat_id |-> cfg.chat_id, text |-> text]

\* the sends of a history that raised
Failures(log) == Cardinality({i \in 1..Len(log) : ~log[i].ok})

\* line 376, the load is due: line 378 calls load_configs
SchedCallLoad ==
  /\ spc = "top"
  /\ ~initial_load_done \/ minute(now) % 5 = 0
  /\ spc' = "loading"
  /\ Called
  /\ load_called' = TRUE
  /\ UNCHANGED <<now, simpleVars, initial_load_done, current_weekday, current_time_hm, cfg_idx,
                 sleep_left, sent, eval_min, after_error, joinVars>>

\* line 376, no load is due
SchedSkipLoad ==
  /\ spc = "top"
  /\ ~(~initial_load_done \/ minute(now) % 5 = 0)
  /\ spc' = "now"
  /\ UNCHANGED <<envVars, cacheVars, loadVars, histVars, now, simpleVars, initial_load_done, load_called,
                 current_weekday, current_time_hm, cfg_idx, sleep_left, sent, eval_min,
                 after_error, joinVars>>

\* a slip: only a load that got through counts as the initial load
SchedLoaded_CountsSuccess ==
  /\ spc = "loading"
  /\ lpc = "ret"
  /\ Returned
  /\ initial_load_done' = (initial_load_done \/ outcome \in {"unchanged", "published"})
  /\ UNCHANGED load_called
  /\ spc' = "now"
  /\ UNCHANGED <<now, simpleVars, current_weekday, current_time_hm, cfg_idx, sleep_left, sent,
                 eval_min, after_error, joinVars>>

\* lines 378-379: load_configs has returned
SchedLoaded ==
  /\ spc = "loading"
  /\ lpc = "ret"
  /\ Returned
  /\ initial_load_done' = TRUE
  /\ UNCHANGED load_called
  /\ spc' = "now"
  /\ UNCHANGED <<now, simpleVars, current_weekday, current_time_hm, cfg_idx, sleep_left, sent,
                 eval_min, after_error, joinVars>>

\* lines 381-390: the clock is read
SchedNow ==
  /\ spc = "now"
  /\ current_weekday' = strftime_A(now)
  /\ current_time_hm' = strftime_HM(now)
  /\ eval_min' = now \div 60
  /\ cfg_idx' = 1
  /\ sent' = <<>>
  /\ after_error' = FALSE
  /\ spc' = "rules"
  /\ UNCHANGED <<envVars, cacheVars, loadVars, histVars, now, simpleVars, initial_load_done, load_called,
                 sleep_left, joinVars>>

\* lines 392-396: the rule does not match
SchedCheck ==
  /\ spc = "rules"
  /\ cfg_idx <= Len(schedule_list)
  /\ ~Matches(schedule_list[cfg_idx], current_weekday, current_time_hm)
  /\ cfg_idx' = cfg_idx + 1
  /\ UNCHANGED <<envVars, cacheVars, loadVars, histVars, now, simpleVars, spc, initial_load_done, load_called,
                 current_weekday, current_time_hm, sleep_left, sent, eval_min, after_error, joinVars>>

\* lines 396-408: the rule matches and its message is sent
SchedSend ==
  /\ spc = "rules"
  /\ cfg_idx <= Len(schedule_list)
  /\ LET cfg == schedule_list[cfg_idx]
     IN  /\ Matches(cfg, current_weekday, current_time_hm)
         /\ sent' = Append(sent, [row |-> cfg.row_num, kwargs |-> SendKwargs(cfg, cfg.message), ok |-> TRUE])
  /\ cfg_idx' = cfg_idx + 1
  /\ UNCHANGED <<envVars, cacheVars, loadVars, histVars, now, simpleVars, spc, initial_load_done, load_called,
                 current_weekday, current_time_hm, sleep_left, eval_min, after_error, joinVars>>

\* lines 396-410: the rule matches and bot.send_message raises
SchedSendRaises ==
  /\ spc = "rules"
  /\ cfg_idx <= Len(schedule_list)
  /\ Failures(sent) < MaxFailures
  /\ LET cfg == schedule_list[cfg_idx]
     IN  /\ Matches(cfg, current_weekday, current_time_hm)
         /\ sent' = Append(sent, [row |-> cfg.row_num, kwargs |-> SendKwargs(cfg, cfg.message), ok |-> FALSE])
  /\ cfg_idx' = cfg_idx + 1
  /\ UNCHANGED <<envVars, cacheVars, loadVars, histVars, now, simpleVars, spc, initial_load_done, load_called,
                 current_weekday, current_time_hm, sleep_left, eval_min, after_error, joinVars>>

\* line 412 and lines 357-367: the rules are done, the thread sleeps to the
\* top of the next minute
SchedSleep ==
  /\ spc = "rules"
  /\ cfg_idx > Len(schedule_list)
  /\ sleep_left' = sleep_duration(now)
  /\ sent' = <<>>
  /\ spc' = "sleep"
  /\ UNCHANGED <<envVars, cacheVars, loadVars, histVars, now, simpleVars, initial_load_done, load_called,
                 current_weekday, current_time_hm, cfg_idx, eval_min, after_error,
                 joinVars>>

\* line 367 returns: the loop goes round
SchedWake ==
  /\ spc = "sleep"
  /\ sleep_left = 0
  /\ spc' = "top"
  /\ UNCHANGED <<envVars, cacheVars, loadVars, histVars, now, simpleVars, initial_load_done, load_called,
                 current_weekday, current_time_hm, cfg_idx, sleep_left, sent, eval_min,
                 after_error, joinVars>>

\* a slip: no try around the body of the loop, the thread ends
SchedRaises_Dies ==
  /\ spc \in {"top", "now", "rules"}
  /\ spc' = "dead"
  /\ UNCHANGED <<envVars, cacheVars, loadVars, histVars, now, simpleVars, initial_load_done, load_called,
                 current_weekday, current_time_hm, cfg_idx, sleep_left, sent, eval_min,
                 after_error, joinVars>>

\* lines 414-417: an exception escapes the body of the loop, outside the
\* try of a send; it is caught and the thread backs off
SchedRaises ==
  /\ spc \in {"top", "now", "rules"}
  /\ spc' = "backoff"
  /\ sleep_left' = BACKOFF
  /\ after_error' = TRUE
  /\ sent' = <<>>
  /\ UNCHANGED <<envVars, cacheVars, loadVars, histVars, now, simpleVars, initial_load_done, load_called,
                 current_weekday, current_time_hm, cfg_idx, eval_min, joinVars>>

\* line 417 returns: the loop goes round
SchedResume ==
  /\ spc = "backoff"
  /\ sleep_left = 0
  /\ spc' = "top"
  /\ UNCHANGED <<envVars, cacheVars, loadVars, histVars, now, simpleVars, initial_load_done, load_called,
                 current_weekday, current_time_hm, cfg_idx, sleep_left, sent, eval_min,
                 after_error, joinVars>>

(***************************************************************************)
(* handle_new_members (lines 231-276), on the polling thread.              *)
(***************************************************************************)
\* the users that join, in the order of message.new_chat_members
USER_1 == [first_name |-> <<"A">>, last_name |-> None, username |-> None]

USER_2 == [first_name |-> <<"B">>, last_name |-> Str(<<"C">>), username |-> Str(<<"d">>)]

USER_3 == [first_name |-> <<"E">>, last_name |-> None, username |-> Str(<<"f">>)]

SampleUsers == <<USER_1, USER_2, USER_3>>

\* the chats an update can come from: one that has rules, one that has none
Chats == {0 - 100111, 0 - 100222}

Messages ==
  { [chat_id |-> c, new_chat_members |-> SubSeq(SampleUsers, 1, n)] :
      c \in Chats, n \in 0..MaxMembers }

\* lines 238-242
UserInfo(new_user) ==
  new_user.first_name
    \o (IF new_user.last_name # None /\ new_user.last_name.s # <<>>
          THEN <<" ">> \o new_user.last_name.s ELSE <<>>)
    \o (IF new_user.username # None /\ new_user.username.s # <<>>
          THEN <<" ", "(", "@">> \o new_user.username.s \o <<")">> ELSE <<>>)

PLACEHOLDER == <<"{", "n", "e", "w", "_", "u", "s", "e", "r", "}">>

\* str.replace: every occurrence, left to right
RECURSIVE replace(_, _, _)
replace(s, old, new) ==
  IF Len(s) < Len(old) THEN s
  ELSE IF SubSeq(s, 1, Len(old)) = old
    THEN new \o replace(SubSeq(s, Len(old) + 1, Len(s)), old, new)
    ELSE <<s[1]>> \o replace(Tail(s), old, new)

\* a slip: the template is sent as it is
personalized_message_Raw(cfg, info) == cfg.message

\* line 254
personalized_message(cfg, info) == replace(cfg.message, PLACEHOLDER, info)

\* the update arrives and the handler is called: lines 232-234 when nobody
\* joined, lines 232-246 for the first member otherwise
JoinEvent ==
  /\ hpc = "idle"
  /\ \E msg \in Messages :
       /\ message' = msg
       /\ IF msg.new_chat_members = <<>>
            THEN /\ hpc' = "ret"
                 /\ UNCHANGED <<user_info, h_list>>
            ELSE /\ hpc' = "rules"
                 /\ user_info' = UserInfo(msg.new_chat_members[1])
                 /\ h_list' = welcome_list
  /\ m_idx' = 1
  /\ h_idx' = 1
  /\ hsent' = <<>>
  /\ UNCHANGED <<envVars, cacheVars, loadVars, histVars, now, simpleVars, schedVars>>

\* line 246 is exhausted: lines 237-246 for the next member, with the list
\* of the moment
HandleNext ==
  /\ hpc = "rules"
  /\ h_idx > Len(h_list)
  /\ m_idx < Len(message.new_chat_members)
  /\ m_idx' = m_idx + 1
  /\ user_info' = UserInfo(message.new_chat_members[m_idx + 1])
  /\ h_list' = welcome_list
  /\ h_idx' = 1
  /\ UNCHANGED <<envVars, cacheVars, loadVars, histVars, now, simpleVars, schedVars, hpc, message,
                 hsent>>

\* line 247: the rule is of another chat
HandleCheck ==
  /\ hpc = "rules"
  /\ h_idx <= Len(h_list)
  /\ message.chat_id # h_list[h_idx].chat_id
  /\ h_idx' = h_idx + 1
  /\ UNCHANGED <<envVars, cacheVars, loadVars, histVars, now, simpleVars, schedVars, hpc, message,
                 m_idx, user_info, h_list, hsent>>

\* one entry of the history of the handler
Greeting(cfg, ok) ==
  [member |-> m_idx,
   row |-> cfg.row_num,
   kwargs |-> SendKwargs(cfg, personalized_message(cfg, user_info)),
   ok |-> ok]

\* lines 247-274: the rule is of this chat and its greeting is sent
HandleSend ==
  /\ hpc = "rules"
  /\ h_idx <= Len(h_list)
  /\ message.chat_id = h_list[h_idx].chat_id
  /\ hsent' = Append(hsent, Greeting(h_list[h_idx], TRUE))
  /\ h_idx' = h_idx + 1
  /\ UNCHANGED <<envVars, cacheVars, loadVars, histVars, now, simpleVars, schedVars, hpc, message,
                 m_idx, user_info, h_list>>

\* a slip: the send is not inside a try, its exception ends the handler
HandleSendRaises_Aborts ==
  /\ hpc = "rules"
  /\ h_idx <= Len(h_list)
  /\ Failures(hsent) < MaxFailures
  /\ message.chat_id = h_list[h_idx].chat_id
  /\ hsent' = Append(hsent, Greeting(h_list[h_idx], FALSE))
  /\ hpc' = "ret"
  /\ UNCHANGED <<envVars, cacheVars, loadVars, histVars, now, simpleVars, schedVars, message,
                 m_idx, user_info, h_list, h_idx>>

\* lines 247-276: the rule is of this chat and bot.send_message raises
HandleSendRaises ==
  /\ hpc = "rules"
  /\ h_idx <= Len(h_list)
  /\ Failures(hsent) < MaxFailures
  /\ message.chat_id = h_list[h_idx].chat_id
  /\ hsent' = Append(hsent, Greeting(h_list[h_idx], FALSE))
  /\ h_idx' = h_idx + 1
  /\ UNCHANGED <<envVars, cacheVars, loadVars, histVars, now, simpleVars, schedVars, hpc, message,
                 m_idx, user_info, h_list>>

\* line 234, or line 237 is exhausted: the handler returns
HandleReturn ==
  /\ \/ hpc = "ret"
     \/ /\ hpc = "rules"
        /\ h_idx > Len(h_list)
        /\ m_idx = Len(message.new_chat_members)
  /\ hpc' = "idle"
  /\ message' = NoMessage
  /\ m_idx' = 1
  /\ user_info' = <<>>
  /\ h_list' = <<>>
  /\ h_idx' = 1
  /\ hsent' = <<>>
  /\ UNCHANGED <<envVars, cacheVars, loadVars, histVars, now, simpleVars, schedVars>>

\* a step of the scheduler thread, load_configs included
SchedStep ==
  \/ SchedCallLoad
  \/ SchedSkipLoad
  \/ LoadNoConfig
  \/ LoadFetchRaises
  \/ LoadCompare
  \/ LoadRecordsRaises
  \/ LoadParse
  \/ LoadPublish
  \/ SchedLoaded
  \/ SchedNow
  \/ SchedCheck
  \/ SchedSend
  \/ SchedSendRaises
  \/ SchedSleep
  \/ SchedWake
  \/ SchedRaises
  \/ SchedResume

\* the scheduler thread and the clock
NextSched ==
  \/ SchedCallLoad
  \/ SchedSkipLoad
  \/ LoadNoConfig
  \/ LoadFetchRaises
  \/ LoadCompare
  \/ LoadRecordsRaises
  \/ LoadParse
  \/ LoadPublish
  \/ SchedLoaded
  \/ SchedNow
  \/ SchedCheck
  \/ SchedSend
  \/ SchedSendRaises
  \/ SchedSleep
  \/ SchedWake
  \/ SchedRaises
  \/ SchedResume
  \/ Tick

SchedSpec == Init /\ [][NextSched]_vars

\* the scheduler thread is scheduled and the calls it makes return; time passes
FairSpec == SchedSpec /\ WF_vars(SchedStep) /\ WF_vars(Tick)

\* the scheduler thread, the clock and the polling thread
Next ==
  \/ SchedCallLoad
  \/ SchedSkipLoad
  \/ LoadNoConfig
  \/ LoadFetchRaises
  \/ LoadCompare
  \/ LoadRecordsRaises
  \/ LoadParse
  \/ LoadPublish
  \/ SchedLoaded
  \/ SchedNow
  \/ SchedCheck
  \/ SchedSend
  \/ SchedSendRaises
  \/ SchedSleep
  \/ SchedWake
  \/ SchedRaises
  \/ SchedResume
  \/ Tick
  \/ JoinEvent
  \/ HandleCheck
  \/ HandleSend
  \/ HandleSendRaises
  \/ HandleNext
  \/ HandleReturn

Spec == InitMonday /\ [][Next]_vars

(***************************************************************************)
(* Properties of the cache and of load_configs, under LoadSpec.            *)
(***************************************************************************)
\* the rules a sheet parses to
RulesOf(t) ==
  [welcome |-> temp_welcome_list(get_all_records(t)),
   schedule |-> temp_schedule_list(get_all_records(t))]

\* C1: in every state, welcome_list and schedule_list were parsed from the
\* same fetch of the sheet.
C1_ListsFromSameFetch == welcome_src = schedule_src

\* C2: between two loads, the cached fingerprint is the fingerprint of the
\* sheet both active lists were parsed from, or is unset while both lists are
\* the initial empty lists.  (Stated for the states in which load_configs is
\* not running, where it asks the least.)
C2_FingerprintOfActiveLists ==
  lpc = "idle" =>
    IF last_sheet_hash = None
      THEN welcome_src = NoTable /\ schedule_src = NoTable
      ELSE /\ welcome_src # NoTable
           /\ welcome_src = schedule_src
           /\ last_sheet_hash = get_sheet_hash(welcome_src)

\* C3: when the load before this one was abandoned on an error of the
\* source, the sheet has not been edited since, and this load fetched it
\* without error, then this load leaves the rules of that sheet active.
C3_RetryPublishes ==
  (lpc = "ret" /\ retry /\ outcome \in {"unchanged", "published"}) =>
    Lists = RulesOf(sheet)

\* C4 as claimed: a load in which a row raised, or in which the source
\* raised after the fingerprint comparison, leaves both lists as they were
\* when it was called.
C4_FailedReparseKeepsLists ==
  (lpc = "ret" /\ (outcome = "abandoned_records" \/ RowRaised(data))) =>
    Lists = before

\* C4 as amended: a load in which the source raised after the fingerprint
\* comparison leaves both lists as they were when it was called, and so
\* does a load up to the assignment of line 203; a load that assigns the
\* lists assigns the rules of all the rows it fetched, also when a row
\* raised and was skipped.
C4_AbandonedLoadKeepsLists ==
  /\ (lpc = "ret" /\ outcome = "abandoned_records") => Lists = before
  /\ lpc \in {"call", "changed"} => Lists = before
  /\ lpc = "swap" =>
       /\ welcome_list = temp_welcome_list(data)
       /\ schedule_list = before.schedule
  /\ (lpc = "ret" /\ outcome = "published") =>
       /\ welcome_list = temp_welcome_list(data)
       /\ schedule_list = temp_schedule_list(data)

\* a load was abandoned at line 137 while rules were active that the sheet
\* no longer parses to
C4_Witness ==
  /\ lpc = "ret"
  /\ outcome = "abandoned_records"
  /\ before.welcome # <<>>
  /\ before.schedule # <<>>
  /\ RulesOf(sheet) # before

\* C5: a load that fetches the very rows the fetch before it returned ends
\* at the comparison and leaves the fingerprint and both lists untouched.
C5_SameTableIsNoOp ==
  [][(/\ lpc = "call"
      /\ lpc' # "call"
      /\ outcome' \notin {"noconfig", "abandoned_fetch"}
      /\ fetched' = fetched)
     => (/\ lpc' = "ret"
         /\ outcome' = "unchanged"
         /\ UNCHANGED cacheVars)]_vars

\* the second of two loads of the same rows has ended, with rules active
C5_Witness ==
  /\ lpc = "ret"
  /\ change = "same"
  /\ outcome = "unchanged"
  /\ welcome_list # <<>>
  /\ schedule_list # <<>>

\* the cells of the model
CellValues ==
  UNION { {t[r][c] : c \in 1..Len(t[r])} : <<t, r>> \in {<<u, q>> \in Tables \X (1..(MaxRows + 1)) : q <= Len(u)} }

\* the sheets that differ from t in one cell
OneCellChanges(t) ==
  { [t EXCEPT ![p[1]][p[2]] = p[3]] :
      p \in { q \in (1..Len(t)) \X (1..Len(Header)) \X CellValues :
                q[2] <= Len(t[q[1]]) /\ t[q[1]][q[2]] # q[3] } }

\* C6: when a load is called, the fingerprint of every sheet that differs in
\* one cell from the rows fetched last is not the cached fingerprint; and a
\* load that fetched rows one cell apart from the rows fetched last, and was
\* not abandoned on an error of the source, parsed all the rows it fetched
\* and assigned both lists.
C6_OneCellChangeReparses ==
  /\ (lpc = "call" /\ fetched # NoTable) =>
       \A t \in OneCellChanges(fetched) : get_sheet_hash(t) # last_sheet_hash
  /\ (lpc = "ret" /\ change = "one_cell" /\ outcome # "abandoned_records") =>
       /\ outcome = "published"
       /\ Len(data) = Len(welcome_src) - 1
       /\ data = get_all_records(welcome_src)
       /\ welcome_src = schedule_src
       /\ Lists = RulesOf(welcome_src)

\* a load of a sheet one cell apart from the one loaded before has replaced
\* lists that were not empty
C6_Witness ==
  /\ lpc = "ret"
  /\ change = "one_cell"
  /\ outcome = "published"
  /\ before.schedule # <<>>
  /\ Lists # before


\* a rule without the row number it carries for the log
Content(rule) ==
  IF "weekday" \in DOMAIN rule
    THEN [weekday |-> rule.weekday, time |-> rule.time, chat_id |-> rule.chat_id,
          topic_id |-> rule.topic_id, message |-> rule.message]
    ELSE [chat_id |-> rule.chat_id, topic_id |-> rule.topic_id, message |-> rule.message]

Contents(list) == [i \in 1..Len(list) |-> Content(list[i])]

\* the rows of data that raise inside the row loop
RaisingRows(records) ==
  {n \in 1..Len(records) : ParseRow(records[n], n + 1).kind = "raise"}

\* the records without those of some rows, in order
RECURSIVE Without(_, _, _)
Without(records, rows, n) ==
  IF n = 0 THEN <<>>
  ELSE IF n \in rows THEN Without(records, rows, n - 1)
  ELSE Append(Without(records, rows, n - 1), records[n])

\* C12: a load whose row loop has run has published; no rule is of a row
\* that raised, and the two lists are, row numbers aside, the rules the
\* other rows give when the rows that raised are not in the table.
C12_RowErrorContained ==
  (lpc = "ret" /\ data # <<>>) =>
    LET bad == RaisingRows(data)
        rest == Without(data, bad, Len(data))
    IN  /\ outcome = "published"
        /\ \A n \in bad :
             /\ \A i \in 1..Len(welcome_list) : welcome_list[i].row_num # n + 1
             /\ \A i \in 1..Len(schedule_list) : schedule_list[i].row_num # n + 1
        /\ Contents(welcome_list) = Contents(temp_welcome_list(rest))
        /\ Contents(schedule_list) = Contents(temp_schedule_list(rest))

\* the first row raised and the row after it gave a rule
C12_Witness ==
  /\ lpc = "ret"
  /\ outcome = "published"
  /\ 1 \in RaisingRows(data)
  /\ Len(welcome_list) = 1
  /\ welcome_list[1].row_num = 3

(***************************************************************************)
(* Properties of scheduler_loop, under SchedSpec and FairSpec.             *)
(***************************************************************************)
\* the rules of a list that are due in the minute that starts at second t
DueRules(list, t) ==
  SelectSeq(list, LAMBDA r : r.weekday = strftime_A(t) /\ r.time = strftime_HM(t))

\* C7: in an evaluating phase the sends attempted so far are, in list order,
\* one per rule before the cursor whose weekday and time are those of the
\* minute the phase observed, each to the rule's chat with the rule's
\* message: equal rules each get their send, and a rule of another weekday
\* or another minute gets none.
C7_SendsExactlyDueRules ==
  spc = "rules" =>
    LET due == DueRules(SubSeq(schedule_list, 1, cfg_idx - 1), eval_min * 60)
    IN  /\ Len(sent) = Len(due)
        /\ \A i \in 1..Len(due) :
             /\ sent[i].row = due[i].row_num
             /\ sent[i].kwargs.chat_id = due[i].chat_id
             /\ sent[i].kwargs.text = due[i].message

\* a phase is through a list of two equal rules and has sent for both
C7_Witness ==
  /\ spc = "rules"
  /\ cfg_idx > Len(schedule_list)
  /\ Len(sent) = 2
  /\ sent[1].kwargs = sent[2].kwargs

\* C8: the minute an evaluating phase observes is later than the minute
\* the phase before it observed, whether a sleep to the next minute or a
\* back-off lies between them.
C8_OncePerMinute ==
  [][(spc = "now" /\ spc' = "rules") => (now \div 60) > eval_min]_vars

\* a phase observed a minute, and the next phase is about to observe the
\* minute after it
C8_Witness ==
  /\ spc = "now"
  /\ eval_min >= 0
  /\ now \div 60 = eval_min + 1

\* C10: the loop is at the top of a phase again and again, whatever was
\* raised in the phases before.
C10_NoTerminalState == []<>(spc = "top")

\* the loop has backed off, come round, and is at line 381 of a phase again
C10_Witness ==
  /\ spc = "now"
  /\ after_error
  /\ initial_load_done

(***************************************************************************)
(* Properties of the sends of both threads, under Spec.                    *)
(***************************************************************************)
\* the last entry of a history is a send that raised, and the step added it
Failed(log, log2) == Len(log2) = Len(log) + 1 /\ ~log2[Len(log2)].ok

\* the rules of a list that are of a chat
RulesOfChat(list, chat) == SelectSeq(list, LAMBDA r : r.chat_id = chat)

\* the rows of the entries of a history that satisfy a test
RowsOf(log, Test(_)) ==
  LET sel == SelectSeq(log, Test) IN [i \in 1..Len(sel) |-> sel[i].row]

RuleRows(list) == [i \in 1..Len(list) |-> list[i].row_num]

\* C9: a send that raises leaves its loop at the next rule, in the
\* scheduler and in the handler alike; so the sends of a phase, and the
\* greetings of a member, are complete up to the cursor whether sends failed
\* or not, and the handler returns only after the last rule of the last
\* member.
C9_FailedSendNeverAborts ==
  /\ [][/\ Failed(sent, sent') =>
             /\ spc' = "rules"
             /\ cfg_idx' = cfg_idx + 1
             /\ schedule_list' = schedule_list
        /\ Failed(hsent, hsent') =>
             /\ hpc' = "rules"
             /\ h_idx' = h_idx + 1
             /\ <<message', m_idx', h_list'>> = <<message, m_idx, h_list>>
        /\ (hpc = "rules" /\ hpc' = "idle") =>
             /\ m_idx = Len(message.new_chat_members)
             /\ h_idx > Len(h_list)]_vars
  /\ [](/\ spc = "rules" =>
             RowsOf(sent, LAMBDA e : TRUE)
               = RuleRows(DueRules(SubSeq(schedule_list, 1, cfg_idx - 1), eval_min * 60))
        /\ hpc = "rules" =>
             RowsOf(hsent, LAMBDA e : e.member = m_idx)
               = RuleRows(RulesOfChat(SubSeq(h_list, 1, h_idx - 1), message.chat_id)))

\* the first send of a phase raised and the second was made; the first
\* greeting of the first member raised and the second member was greeted
C9_Witness ==
  /\ Len(sent) = 2
  /\ ~sent[1].ok
  /\ Len(hsent) = 2
  /\ ~hsent[1].ok
  /\ hsent[1].member = 1
  /\ hsent[2].member = 2

\* C11: while a join event of chat C is handled, the greetings attempted
\* for the member at hand are, in list order, one per rule of chat C before
\* the cursor of the list that member is matched against, each addressed to
\* C with the rule's template in which the placeholder is replaced by the
\* member's display name; greetings already attempted stay as they are; a
\* rule of another chat, or a list without a rule of C, adds none.
C11_GreetsEveryPair ==
  /\ [](hpc = "rules" =>
          LET mine == SelectSeq(hsent, LAMBDA e : e.member = m_idx)
              due == RulesOfChat(SubSeq(h_list, 1, h_idx - 1), message.chat_id)
              name == UserInfo(message.new_chat_members[m_idx])
          IN  /\ Len(mine) = Len(due)
              /\ \A i \in 1..Len(due) :
                   /\ mine[i].row = due[i].row_num
                   /\ mine[i].kwargs.chat_id = message.chat_id
                   /\ mine[i].kwargs.text = replace(due[i].message, PLACEHOLDER, name)
              /\ \A i \in 1..Len(hsent) : hsent[i].member \in 1..m_idx)
  /\ [][(hpc = "rules" /\ hpc' = "rules") =>
          /\ Len(hsent') >= Len(hsent)
          /\ SubSeq(hsent', 1, Len(hsent)) = hsent
          /\ m_idx' # m_idx => hsent' = hsent]_vars

\* two members were greeted from two rules each, and the second rule's
\* text names each of them
C11_Witness ==
  /\ hpc = "rules"
  /\ m_idx = 2
  /\ h_idx > Len(h_list)
  /\ Len(hsent) = 4
  /\ hsent[2].kwargs.text = <<"A", "!">>
  /\ hsent[4].kwargs.text = <<"B", " ", "C", " ", "(", "@", "d", ")", "!">>

(***************************************************************************)
(* Properties of the rows load_configs accepts, under RowSpec.             *)
(***************************************************************************)
\* the cell of a column in the data row of a one-row sheet; no cell when the
\* header lacks the column
HasColumn(t, col) == \E c \in 1..Len(t[1]) : t[1][c] = col

CellOf(t, col) == t[2][CHOOSE c \in 1..Len(t[1]) : t[1][c] = col]

\* a required field of the data row is absent: no column, or an empty cell
Absent(t) ==
  \E col \in {COL_DAY, COL_GROUP, COL_MSG} : ~HasColumn(t, col) \/ CellOf(t, col) = <<>>

\* C13: a load that has published a one-row sheet whose row lacks a
\* required field (the column, or the content of the cell) has published
\* no rule, and the row did not raise.
C13_AbsentFieldGivesNoRule ==
  (lpc = "ret" /\ outcome = "published" /\ Absent(welcome_src)) =>
    /\ welcome_list = <<>>
    /\ schedule_list = <<>>
    /\ ~RowRaised(data)

\* a time of day that strftime("%H:%M") can produce
IsHHMM(s) ==
  /\ Len(s) = 5
  /\ s[3] = ":"
  /\ \A i \in {1, 2, 4, 5} : s[i] \in Digits
  /\ 10 * DigitVal(s[1]) + DigitVal(s[2]) < 24
  /\ 10 * DigitVal(s[4]) + DigitVal(s[5]) < 60

\* C14: every rule of the published schedule_list has one of the seven
\* weekday names and a time of day of the form "HH:MM" (24 hours), the form
\* the scheduler computes for the current minute.
C14_ScheduledRulesWellFormed ==
  \A i \in 1..Len(schedule_list) :
    /\ \E d \in 1..Len(WeekdayNames) : schedule_list[i].weekday = WeekdayNames[d]
    /\ IsHHMM(schedule_list[i].time)

(***************************************************************************)
(* The arguments of a send, under Spec.                                    *)
(***************************************************************************)
\* the arguments k target the sub-thread of rule cfg, or none
TopicRight(cfg, k) ==
  /\ ("message_thread_id" \in DOMAIN k) <=> (cfg.topic_id \notin {0, 1})
  /\ ("message_thread_id" \in DOMAIN k) => (k.message_thread_id = cfg.topic_id)

\* C15: every send the scheduler builds for a rule of schedule_list and every
\* send the handler builds for a rule of the welcome list it iterates carries
\* message_thread_id if and only if the rule's topic_id is neither 0 nor 1,
\* and then message_thread_id is the rule's topic_id.
C15_ThreadIdIffTopic ==
  [][ /\ (Len(sent') = Len(sent) + 1) =>
           TopicRight(schedule_list[cfg_idx], sent'[Len(sent')].kwargs)
      /\ (Len(hsent') = Len(hsent) + 1) =>
           TopicRight(h_list[h_idx], hsent'[Len(hsent')].kwargs) ]_vars

\* the scheduler has sent the rule of topic 5 with message_thread_id 5 and
\* the handler has greeted from the rule of topic 1 without message_thread_id
C15_Witness ==
  /\ sheet = TopicTable
  /\ sent # <<>>
  /\ "message_thread_id" \in DOMAIN sent[1].kwargs
  /\ sent[1].kwargs.message_thread_id = 5
  /\ hsent # <<>>
  /\ "message_thread_id" \notin DOMAIN hsent[1].kwargs
  /\ h_list[1].topic_id = 1

(***************************************************************************)
(* When the loop loads, under SchedSpec.                                   *)
(***************************************************************************)
\* C16: a turn of the loop that reaches line 376 calls load_configs if and
\* only if the loop has not called it before or the minute of the clock is
\* a multiple of 5; a load that failed counts as a call like any other, so
\* the turn after it loads only on a multiple of 5.
C16_LoadsFirstAndEveryFifthMinute ==
  [][ (spc = "top" /\ spc' \in {"loading", "now"}) =>
        ((spc' = "loading") <=> (~load_called \/ minute(now) % 5 = 0)) ]_vars

\* the only load so far was called at 09:00 and failed, the rules were
\* evaluated at 09:00, and the turn of 09:01 has passed line 376 without a
\* load
C16_Witness ==
  /\ spc = "now"
  /\ lpc = "idle"
  /\ initial_load_done
  /\ last_sheet_hash = None
  /\ minute(now) % 5 # 0
  /\ eval_min = now \div 60 - 1

(***************************************************************************)
(* The welcome list of one join event, under Spec.                         *)
(***************************************************************************)
\* the rows of the rules member m of the event was greeted from
GreetedRows(m) == RowsOf(hsent, LAMBDA e : e.member = m)

\* C17: the members of one join event are matched against one and the same
\* welcome list, whatever load_configs does meanwhile: once the rules are
\* exhausted for a later member, every earlier member of the event has been
\* greeted from the same rules as that member.
C17_OneListPerEvent ==
  (hpc = "rules" /\ h_idx > Len(h_list) /\ m_idx > 1) =>
    \A m \in 1..(m_idx - 1) : GreetedRows(m) = GreetedRows(m_idx)

(***************************************************************************)
(* The fingerprint gate on edited cells, under RowSpec.                    *)
(***************************************************************************)
\* C18: the gate of lines 130-132 never hides a change: a load returns at
\* the comparison only when the rows it fetched are, cell by cell, the rows
\* the cached fingerprint was computed from; rows that differ in any cell
\* have another fingerprint and are parsed again.
C18_GateNeverHidesChange ==
  (lpc = "ret" /\ outcome = "unchanged") => fetched = hash_src

(***************************************************************************)
(* telegram_welcome.py, the simple variant: run_scheduler (lines 65-72)    *)
(* and weekly_announcement (lines 47-60).  The job registered at line 62   *)
(* never runs, schedule.run_pending is called nowhere.                     *)
(***************************************************************************)
\* line 71: the interval between two checks, in seconds
CHECK_INTERVAL == 30

\* line 70: the wait after an announcement, in seconds
DUPLICATE_WAIT == 60

\* line 68
IsMondayNine(t) == (t \div DAY) % 7 = 0 /\ hour(t) = 9 /\ minute(t) = 0

\* the wall clock of the simple variant advances; a week outside the window
\* of the model passes in one step and ends every sleep
SimpleTick ==
  LET start == (kst \div DAY) * DAY + SimpleWindowStart
      nextWeek == kst + SimpleTickSeconds > start + SimpleWindowSeconds
  IN  /\ kst' = IF nextWeek THEN start ELSE kst + SimpleTickSeconds
      /\ r_sleep' =
           IF nextWeek \/ r_sleep <= SimpleTickSeconds THEN 0 ELSE r_sleep - SimpleTickSeconds
      /\ announced_min' =
           IF nextWeek /\ announced_min >= 0 THEN announced_min - WEEK \div 60
           ELSE announced_min
      /\ UNCHANGED <<envVars, cacheVars, loadVars, histVars, now, schedVars, joinVars, rpc>>

\* lines 67-68, and line 71 when it is not Monday 09:00
RunCheck ==
  /\ rpc = "check"
  /\ IF IsMondayNine(kst)
       THEN /\ rpc' = "announce"
            /\ UNCHANGED r_sleep
       ELSE /\ rpc' = "poll"
            /\ r_sleep' = CHECK_INTERVAL
  /\ UNCHANGED <<envVars, cacheVars, loadVars, histVars, now, schedVars, joinVars, kst,
                 announced_min>>

\* a slip: no wait after the announcement, the next check is 30 seconds on
WeeklyAnnouncement_NoWait ==
  /\ rpc = "announce"
  /\ announced_min' = kst \div 60
  /\ rpc' = "poll"
  /\ r_sleep' = CHECK_INTERVAL
  /\ UNCHANGED <<envVars, cacheVars, loadVars, histVars, now, schedVars, joinVars, kst>>

\* lines 69-70: weekly_announcement sends its message and returns, the
\* thread sleeps 60 seconds
WeeklyAnnouncement ==
  /\ rpc = "announce"
  /\ announced_min' = kst \div 60
  /\ rpc' = "guard"
  /\ r_sleep' = DUPLICATE_WAIT
  /\ UNCHANGED <<envVars, cacheVars, loadVars, histVars, now, schedVars, joinVars, kst>>

\* line 69, bot.send_message of line 60 raises: nothing in run_scheduler or
\* in weekly_announcement catches it, the thread of line 83 ends
WeeklyAnnouncementRaises ==
  /\ rpc = "announce"
  /\ announced_min' = kst \div 60
  /\ rpc' = "dead"
  /\ UNCHANGED <<envVars, cacheVars, loadVars, histVars, now, schedVars, joinVars, kst,
                 r_sleep>>

\* line 70 returns
GuardSlept ==
  /\ rpc = "guard"
  /\ r_sleep = 0
  /\ rpc' = "poll"
  /\ r_sleep' = CHECK_INTERVAL
  /\ UNCHANGED <<envVars, cacheVars, loadVars, histVars, now, schedVars, joinVars, kst,
                 announced_min>>

\* line 71 returns: the loop goes round
PollSlept ==
  /\ rpc = "poll"
  /\ r_sleep = 0
  /\ rpc' = "check"
  /\ UNCHANGED <<envVars, cacheVars, loadVars, histVars, now, schedVars, joinVars, kst,
                 r_sleep, announced_min>>

\* the thread of run_scheduler starts on a Monday or on a Tuesday; the bot of
\* Autobot.py is not part of this process
InitSimpleSpec ==
  /\ SPREADSHEET_URL = FALSE
  /\ sheet = <<Header>>
  /\ now = WindowStart
  /\ InitCache
  /\ InitSched
  /\ InitJoin
  /\ kst \in {d * DAY + SimpleWindowStart : d \in StartDays}
  /\ rpc = "check"
  /\ r_sleep = 0
  /\ announced_min = NoMinute

NextSimple ==
  \/ RunCheck
  \/ WeeklyAnnouncement
  \/ WeeklyAnnouncementRaises
  \/ GuardSlept
  \/ PollSlept
  \/ SimpleTick

SimpleSpec == InitSimpleSpec /\ [][NextSimple]_vars

(***************************************************************************)
(* Properties of run_scheduler, under SimpleSpec.                          *)
(***************************************************************************)
\* C19: weekly_announcement is called at most once in any one minute, so at
\* most once in the Monday 09:00 minute: a call is never made in the minute
\* of the call before it.
C19_OncePerMondayNine ==
  [][(rpc = "announce" /\ rpc' # "announce") => announced_min # kst \div 60]_vars

\* the announcement of this Monday 09:00 was made and the loop has come
\* round to its next check, which falls in a later minute
C19_Witness ==
  /\ rpc = "check"
  /\ announced_min = 9 * 60
  /\ kst \div 60 > announced_min

\* C20: an exception raised in a cycle of run_scheduler, a send that fails
\* inside weekly_announcement, never ends the thread: the loop goes on.
C20_ExceptionNeverEndsLoop == rpc # "dead"

============================================================================
